---- MODULE Spec2Model ----
(***************************************************************************)
(* A model of the edge functions of superbase-edge-functions: the shared   *)
(* request pipeline (supabase/functions/_shared/middleware.ts), the login  *)
(* and get-user endpoints built on it, and the inlined register endpoint.  *)
(*                                                                         *)
(* Strings the code inspects are sequences of fragments: a message such as *)
(* 'User not found in database' is <<"User ", "not found", " in database">>*)
(* and String.includes(p) is "some fragment is p".  The fragments are cut  *)
(* so that each pattern the code searches for is either one whole fragment *)
(* of a message or does not occur in it at all.                            *)
(***************************************************************************)
EXTENDS Integers, Sequences, FiniteSets, TLC

\* ------------------------------------------------------------------ bounds

\* Longest message (in fragments) a handler outside the repository throws.
MaxMsgLen == 2

\* ------------------------------------------------------- values and strings

\* JavaScript's undefined and null: two values that are no string (written
\* as one-fragment sequences no string of the model contains).
Undefined == <<"#undefined">>
Null == <<"#null">>

\* The empty string, as a sequence of fragments.
EmptyString == << >>

\* JavaScript truthiness of a value that is undefined, null or a string.
Truthy(v) == v # Undefined /\ v # Null /\ v # EmptyString

\* String.prototype.includes for a pattern that is one fragment.
Includes(message, pattern) == \E i \in 1..Len(message) : message[i] = pattern

\* String.prototype.startsWith for a prefix that is one fragment.
StartsWith(s, prefix) == Len(s) > 0 /\ s[1] = prefix

\* String.prototype.replace(pattern, ''): the first occurrence is removed.
RECURSIVE ReplaceFirst(_, _)
ReplaceFirst(s, pattern) ==
  IF s = << >> THEN << >>
  ELSE IF Head(s) = pattern THEN Tail(s)
  ELSE <<Head(s)>> \o ReplaceFirst(Tail(s), pattern)

\* String.prototype.trim: white-space fragments at either end are dropped.
RECURSIVE Trim(_)
Trim(s) ==
  IF s = << >> THEN << >>
  ELSE IF Head(s) = " " THEN Trim(Tail(s))
  ELSE IF s[Len(s)] = " " THEN Trim(SubSeq(s, 1, Len(s) - 1))
  ELSE s

\* Array.prototype.join(', ') of an array of one-fragment strings.
RECURSIVE Join(_)
Join(items) ==
  IF items = << >> THEN << >>
  ELSE IF Len(items) = 1 THEN <<items[1]>>
  ELSE <<items[1], ", ">> \o Join(Tail(items))

\* new Error(message), and a thrown value that is no Error: it has no message.
Error(message) == [kind |-> "Error", message |-> message]
NonError == [kind |-> "value", message |-> Undefined]
NoThrow == [kind |-> "none", message |-> Undefined]

\* ----------------------------------------------------------- middleware.ts

corsHeaders ==
  { "Access-Control-Allow-Origin", "Access-Control-Allow-Headers",
    "Access-Control-Allow-Methods", "Content-Type" }

NoResponse == [status |-> 0, headers |-> {}, body |-> [none |-> "none"]]

\* The preflight check with the method's name in the wrong case.
handleCorsPreflightRequest_WrongCase(req) ==
  IF req.method = "options"
  THEN [status |-> 200, headers |-> corsHeaders, body |-> [text |-> "ok"]]
  ELSE NoResponse

handleCorsPreflightRequest(req) ==
  IF req.method = "OPTIONS"
  THEN [status |-> 200, headers |-> corsHeaders, body |-> [text |-> "ok"]]
  ELSE NoResponse

createErrorResponse(message, status) ==
  [status |-> status, headers |-> corsHeaders, body |-> [error |-> message]]

createSuccessResponse(data, status) ==
  [status |-> status, headers |-> corsHeaders, body |-> data]

\* The result of a call that returns a value or throws.
Returns(v) == [ok |-> TRUE, value |-> v, error |-> NoThrow]
Throws(e) == [ok |-> FALSE, value |-> Undefined, error |-> e]

requiredEnvVars ==
  <<"SUPABASE_URL", "SUPABASE_SERVICE_ROLE_KEY", "FIREBASE_WEB_API_KEY">>

\* The filter stopping at the first setting that is missing.
missingEnvVars_FirstOnly(e) ==
  LET all == SelectSeq(requiredEnvVars, LAMBDA envVar : ~Truthy(e[envVar]))
  IN SubSeq(all, 1, IF Len(all) > 0 THEN 1 ELSE 0)

\* requiredEnvVars.filter(envVar => !Deno.env.get(envVar))
missingEnvVars(e) == SelectSeq(requiredEnvVars, LAMBDA envVar : ~Truthy(e[envVar]))

\* The validation failure worded as a "Missing required" failure.
MissingEnvMessage_Required(e) ==
  <<"Missing required", " environment variables: ">> \o Join(missingEnvVars(e))

MissingEnvMessage(e) ==
  <<"Missing environment variables: ">> \o Join(missingEnvVars(e))

SupabaseConfigMessage ==
  <<"Missing Supabase configuration: SUPABASE_URL and SUPABASE_SERVICE_ROLE_KEY are required">>

createSupabaseClient(e) ==
  IF ~Truthy(e["SUPABASE_URL"]) \/ ~Truthy(e["SUPABASE_SERVICE_ROLE_KEY"])
  THEN Throws(Error(SupabaseConfigMessage))
  ELSE Returns(<<"supabaseClient">>)

KeyNotConfiguredMessage == <<"Firebase Web API Key not configured">>

\* The extraction without its check that the header is there.
extractBearerToken_NoNullCheck(authHeader) ==
  IF authHeader = Null
  THEN Throws(Error(<<"Cannot read properties of null (reading 'startsWith')">>))
  ELSE IF ~StartsWith(authHeader, "Bearer ")
  THEN Throws(Error(<<"Unauthorized", ": No valid Bearer token provided">>))
  ELSE LET token == Trim(ReplaceFirst(authHeader, "Bearer "))
       IN IF ~Truthy(token)
          THEN Throws(Error(<<"Unauthorized", ": Empty token provided">>))
          ELSE Returns(token)

\* extractAndVerifyToken up to its call of verifyFirebaseToken: the token.
extractBearerToken(authHeader) ==
  IF ~Truthy(authHeader) \/ ~StartsWith(authHeader, "Bearer ")
  THEN Throws(Error(<<"Unauthorized", ": No valid Bearer token provided">>))
  ELSE LET token == Trim(ReplaceFirst(authHeader, "Bearer "))
       IN IF ~Truthy(token)
          THEN Throws(Error(<<"Unauthorized", ": Empty token provided">>))
          ELSE Returns(token)

\* validateRequiredFields(data, requiredFields)
\* A validation that stops at the first missing field.
validateRequiredFields_FirstOnly(data, requiredFields) ==
  LET missingFields == SelectSeq(requiredFields, LAMBDA field : ~Truthy(data[field]))
  IN IF Len(missingFields) > 0
     THEN Throws(Error(<<"Missing required", " fields: ", missingFields[1]>>))
     ELSE Returns(Undefined)

validateRequiredFields(data, requiredFields) ==
  LET missingFields == SelectSeq(requiredFields, LAMBDA field : ~Truthy(data[field]))
  IN IF Len(missingFields) > 0
     THEN Throws(Error(<<"Missing required", " fields: ">> \o Join(missingFields)))
     ELSE Returns(Undefined)

\* getRequiredQueryParam(url, paramName), the URL given by its query parameters
getRequiredQueryParam(url, paramName) ==
  LET value == url[paramName]
  IN IF ~Truthy(value)
     THEN Throws(Error(<<"Missing required", " query parameter: ", paramName>>))
     ELSE Returns(value)

\* The catch block with the Forbidden test moved before the not-found test.
errorResponseFor_Reordered(message) ==
  IF Includes(message, "Unauthorized") THEN createErrorResponse(message, 401)
  ELSE IF Includes(message, "Missing required") THEN createErrorResponse(message, 400)
  ELSE IF Includes(message, "Forbidden") THEN createErrorResponse(message, 403)
  ELSE IF Includes(message, "not found") \/ Includes(message, "Not found")
       THEN createErrorResponse(message, 404)
  ELSE createErrorResponse(
         IF Truthy(message) THEN message ELSE <<"Internal server error">>, 500)

\* withMiddleware's catch block, for a caught value whose message is a string.
errorResponseFor(message) ==
  IF Includes(message, "Unauthorized") THEN createErrorResponse(message, 401)
  ELSE IF Includes(message, "Missing required") THEN createErrorResponse(message, 400)
  ELSE IF Includes(message, "not found") \/ Includes(message, "Not found")
       THEN createErrorResponse(message, 404)
  ELSE IF Includes(message, "Forbidden") THEN createErrorResponse(message, 403)
  ELSE createErrorResponse(
         IF Truthy(message) THEN message ELSE <<"Internal server error">>, 500)

\* The row handed on as it is, every column of it.
sanitizeUserData_PassThrough(user) == user

sanitizeUserData(user) ==
  [ id |-> user.id, name |-> user.name, email |-> user.email,
    firebase_uid |-> user.firebase_uid, created_at |-> user.created_at,
    updated_at |-> user.updated_at ]

\* ------------------------------------------------- the external collaborators

Uids == {"u1", "u2", "u3", "u4"}

\* The ID token the identity provider issues for an account, and its e-mail.
IdTokenOf(uid) ==
  CASE uid = "u1" -> "tok-u1" [] uid = "u2" -> "tok-u2"
    [] uid = "u3" -> "tok-u3" [] uid = "u4" -> "tok-u4"

EmailOf(uid) ==
  CASE uid = "u1" -> "alice" [] uid = "u2" -> "bob"
    [] uid = "u3" -> "carol" [] uid = "u4" -> "dave"

\* Every account of the model has this password.
Password == <<"secret">>

\* The account record the provider returns (FirebaseUser).
FirebaseUser(uid) == [localId |-> uid, email |-> EmailOf(uid)]
NoFirebaseUser == [localId |-> "#undefined", email |-> "#undefined"]

\* accounts:lookup as the provider answers it: a valid token gives its one
\* account; "orphan" is a token the provider answers with no account;
\* "expired" and every unknown token are refused with the provider's message,
\* "nomsg" with a body that carries none.
accountsLookup(accts, token) ==
  IF \E uid \in accts : token = <<IdTokenOf(uid)>>
  THEN [ok |-> TRUE, message |-> Undefined,
        users |-> <<FirebaseUser(CHOOSE uid \in accts : token = <<IdTokenOf(uid)>>)>>]
  ELSE IF token = <<"orphan">> THEN [ok |-> TRUE, message |-> Undefined, users |-> << >>]
  ELSE IF token = <<"expired">> THEN [ok |-> FALSE, message |-> <<"TOKEN_EXPIRED">>, users |-> << >>]
  ELSE IF token = <<"nomsg">> THEN [ok |-> FALSE, message |-> Undefined, users |-> << >>]
  ELSE [ok |-> FALSE, message |-> <<"INVALID_ID_TOKEN">>, users |-> << >>]

\* What a rejected fetch throws (a TypeError with the runtime's message).
NetworkError == Error(<<"error sending request">>)

\* ---------------------------------------------------------------- requests

AllReqs == {"r1", "r2"}

Endpoints == {"login", "get-user", "register", "custom"}
Methods == {"OPTIONS", "GET", "POST"}

Options == [requireAuth : BOOLEAN, validateEnv : BOOLEAN]

\* The options each serve callback passes to withMiddleware; a handler
\* outside the repository ("custom") may pass any, and the register endpoint,
\* which does not call withMiddleware, has none.
OptionsOf(endpoint) ==
  CASE endpoint = "login" -> {[requireAuth |-> FALSE, validateEnv |-> TRUE]}
    [] endpoint = "get-user" -> {[requireAuth |-> TRUE, validateEnv |-> TRUE]}
    [] endpoint = "custom" -> Options
    [] endpoint = "register" -> {[requireAuth |-> FALSE, validateEnv |-> FALSE]}

HeaderTokens == {"tok-u1", "tok-u2", "tok-u4", "expired", "nomsg", "orphan"}

\* Authorization header values: none, the empty string, another scheme, the
\* bare prefix, the prefix and white space, and Bearer tokens.
AuthHeaders ==
  { Null, EmptyString, <<"Basic ", "tok-u1">>, <<"Bearer ">>, <<"Bearer ", " ">> }
    \cup { <<"Bearer ", t>> : t \in HeaderTokens }

EnvValues == {Undefined, EmptyString, <<"configured">>}

NoBody == [json |-> "none", name |-> Undefined, email |-> Undefined, password |-> Undefined]

\* Request bodies: text that is no JSON, the JSON null, and JSON objects
\* whose fields are absent, empty or set.
LoginBodies ==
  { [NoBody EXCEPT !.json = "invalid"], [NoBody EXCEPT !.json = "null"] }
    \cup [ json : {"object"}, name : {Undefined},
           email : {Undefined, EmptyString, <<"alice">>, <<"carol">>, <<"dave">>},
           password : {Undefined, EmptyString, Password, <<"wrong">>} ]

RegisterBodies ==
  { [NoBody EXCEPT !.json = "invalid"] }
    \cup [ json : {"object"}, name : {Undefined, <<"Name">>},
           email : {Undefined, <<"alice">>, <<"dave">>},
           password : {Undefined, <<"short">>, Password} ]

\* The id query parameter: absent (searchParams.get gives null), empty, the
\* ids of two stored rows and an id no row has.
QueryIds == {Null, EmptyString, <<"1">>, <<"2">>, <<"9">>}

NoRequest ==
  [ endpoint |-> "none", method |-> "none",
    options |-> [requireAuth |-> FALSE, validateEnv |-> FALSE],
    authorization |-> Null, url |-> [id |-> Null], body |-> NoBody ]

\* The requests an endpoint can receive; what the endpoint never reads is
\* left at its default.
RequestsOf(endpoint) ==
  CASE endpoint \in {"custom", "get-user"} ->
         { [NoRequest EXCEPT !.endpoint = endpoint, !.method = m, !.options = o[1],
                             !.authorization = h,
                             !.url = [id |-> o[2]]]
             : m \in Methods, h \in AuthHeaders,
               o \in OptionsOf(endpoint) \X (IF endpoint = "get-user" THEN QueryIds ELSE {Null}) }
    [] endpoint \in {"login", "register"} ->
         { [NoRequest EXCEPT !.endpoint = endpoint, !.method = m, !.options = o,
                             !.body = b]
             : m \in Methods, o \in OptionsOf(endpoint),
               b \in (IF endpoint = "login" THEN LoginBodies ELSE RegisterBodies) }

\* A row of the users table as select('*') returns it: the columns the
\* endpoints name, and whatever other column the table has.
UserRow(id, name, email, uid) ==
  [ id |-> id, name |-> name, email |-> email, firebase_uid |-> uid,
    created_at |-> "t0", updated_at |-> "t0", other_column |-> "internal" ]
NoRow ==
  [ id |-> "#null", name |-> "#null", email |-> "#null", firebase_uid |-> "#null",
    created_at |-> "#null", updated_at |-> "#null", other_column |-> "#null" ]

NoLocal ==
  [ firebaseUser |-> NoFirebaseUser, idToken |-> Undefined, dbUser |-> NoRow,
    dbError |-> Undefined ]

\* --------------------------------------------------------------------- state

VARIABLES
  env,        \* Deno.env: the value of each required setting
  accounts,   \* the identity provider's accounts (their identifiers)
  users,      \* the rows of the data store's users table
  request,    \* per request: the request received
  pc,         \* per request: where its invocation stands
  context,    \* per request: the MiddlewareContext (its firebaseUser)
  local,      \* per request: the handler's local variables
  thrown,     \* per request: the value thrown and not yet caught
  trace,      \* per request: the steps run and the external calls issued
  response    \* per request: the Response the invocation resolved with

vars == <<env, accounts, users, request, pc, context, local, thrown, trace, response>>

Init ==
  /\ env \in [{"SUPABASE_URL", "SUPABASE_SERVICE_ROLE_KEY", "FIREBASE_WEB_API_KEY"} -> EnvValues]
  /\ accounts = {"u1", "u2", "u3"}
  /\ users = {UserRow("1", "Alice", "alice", "u1"), UserRow("2", "Bob", "bob", "u2")}
  /\ request = [r \in AllReqs |-> NoRequest]
  /\ pc = [r \in AllReqs |-> "idle"]
  /\ context = [r \in AllReqs |-> [firebaseUser |-> NoFirebaseUser]]
  /\ local = [r \in AllReqs |-> NoLocal]
  /\ thrown = [r \in AllReqs |-> NoThrow]
  /\ trace = [r \in AllReqs |-> << >>]
  /\ response = [r \in AllReqs |-> NoResponse]

Event(op, arg) == [op |-> op, arg |-> arg]

\* The step of request r: its pc, and what it throws, logs and answers.
Goto(r, label) == pc' = [pc EXCEPT ![r] = label]
ThrowTo(r, e, label) == thrown' = [thrown EXCEPT ![r] = e] /\ pc' = [pc EXCEPT ![r] = label]
Throw(r, e) == ThrowTo(r, e, "catch")
Log(r, events) == trace' = [trace EXCEPT ![r] = @ \o events]
Respond(r, resp) == response' = [response EXCEPT ![r] = resp] /\ pc' = [pc EXCEPT ![r] = "done"]

\* serve's callback is called with a request.
Receive(r) ==
  /\ pc[r] = "idle"
  /\ \E endpoint \in Endpoints : \E req \in RequestsOf(endpoint) :
       /\ request' = [request EXCEPT ![r] = req]
       /\ Goto(r, IF endpoint = "register" THEN "register" ELSE "withMiddleware")
  /\ UNCHANGED <<env, accounts, users, context, local, thrown, trace, response>>

\* withMiddleware: the CORS preflight check.
CorsPreflight(r) ==
  /\ pc[r] = "withMiddleware"
  /\ LET corsResponse == handleCorsPreflightRequest(request[r])
     IN IF corsResponse # NoResponse
        THEN Respond(r, corsResponse)
        ELSE Goto(r, "validateEnv") /\ UNCHANGED response
  /\ UNCHANGED <<env, accounts, users, request, context, local, thrown, trace>>

\* withMiddleware: the required settings are checked when validateEnv is set.
ValidateEnv(r) ==
  /\ pc[r] = "validateEnv"
  /\ IF request[r].options.validateEnv
     THEN /\ Log(r, <<Event("validateEnv", Undefined)>>)
          /\ IF Len(missingEnvVars(env)) > 0
             THEN Throw(r, Error(MissingEnvMessage(env)))
             ELSE Goto(r, "createContext") /\ UNCHANGED thrown
     ELSE Goto(r, "createContext") /\ UNCHANGED <<thrown, trace>>
  /\ UNCHANGED <<env, accounts, users, request, context, local, response>>

\* A pipeline that goes on to authentication after the client could not be
\* built.
CreateContext_GoesOn(r) ==
  /\ pc[r] = "createContext"
  /\ Log(r, <<Event("createSupabaseClient", Undefined)>>)
  /\ LET client == createSupabaseClient(env)
     IN IF client.ok
        THEN Goto(r, "authenticate") /\ UNCHANGED thrown
        ELSE Goto(r, "authenticate") /\ thrown' = [thrown EXCEPT ![r] = client.error]
  /\ context' = [context EXCEPT ![r] = [firebaseUser |-> NoFirebaseUser]]
  /\ UNCHANGED <<env, accounts, users, request, local, response>>

\* withMiddleware: the context is built, with a fresh data-store client.
CreateContext(r) ==
  /\ pc[r] = "createContext"
  /\ Log(r, <<Event("createSupabaseClient", Undefined)>>)
  /\ LET client == createSupabaseClient(env)
     IN IF client.ok
        THEN Goto(r, "authenticate") /\ UNCHANGED thrown
        ELSE Throw(r, client.error)
  /\ context' = [context EXCEPT ![r] = [firebaseUser |-> NoFirebaseUser]]
  /\ UNCHANGED <<env, accounts, users, request, local, response>>

\* withMiddleware: with requireAuth, extractAndVerifyToken runs up to the
\* fetch of verifyFirebaseToken; without, the handler is next.
Authenticate(r) ==
  /\ pc[r] = "authenticate"
  /\ IF ~request[r].options.requireAuth
     THEN Goto(r, "handler") /\ UNCHANGED <<thrown, trace>>
     ELSE LET bearer == extractBearerToken(request[r].authorization)
          IN IF ~bearer.ok
             THEN Throw(r, bearer.error) /\ UNCHANGED trace
             ELSE IF ~Truthy(env["FIREBASE_WEB_API_KEY"])
             THEN Throw(r, Error(KeyNotConfiguredMessage)) /\ UNCHANGED trace
             ELSE /\ Log(r, <<Event("accounts:lookup", bearer.value)>>)
                  /\ Goto(r, "lookup") /\ UNCHANGED thrown
  /\ UNCHANGED <<env, accounts, users, request, context, local, response>>

\* verifyFirebaseToken from the fetch on: rejected says the fetch itself
\* failed, answer is the provider's answer otherwise.  Whatever the try block
\* throws is rethrown with the prefix.
verifyFirebaseToken(rejected, answer) ==
  LET inner ==
        IF rejected THEN Throws(NetworkError)
        ELSE IF ~answer.ok
        THEN Throws(Error(IF Truthy(answer.message) THEN answer.message
                          ELSE <<"Invalid or expired token">>))
        ELSE IF Len(answer.users) = 0
        THEN Throws(Error(<<"Invalid token: No user found">>))
        ELSE Returns(answer.users[1])
  IN IF inner.ok THEN [ok |-> TRUE, user |-> inner.value, error |-> NoThrow]
     ELSE [ok |-> FALSE, user |-> NoFirebaseUser,
           error |-> Error(<<"Firebase token verification failed: ">> \o inner.error.message)]

\* The token a request's accounts:lookup call carried.
LookupToken(r) == trace[r][Len(trace[r])].arg

\* A pipeline that keeps the verified account in one place for every
\* invocation.
LookupReturns_SharedContext(r) ==
  /\ pc[r] = "lookup"
  /\ \E rejected \in BOOLEAN :
       LET verified == verifyFirebaseToken(rejected, accountsLookup(accounts, LookupToken(r)))
       IN IF verified.ok
          THEN /\ context' = [q \in AllReqs |-> [firebaseUser |-> verified.user]]
               /\ Goto(r, "handler") /\ UNCHANGED thrown
          ELSE Throw(r, verified.error) /\ UNCHANGED context
  /\ UNCHANGED <<env, accounts, users, request, local, trace, response>>

\* withMiddleware: the lookup call returns and extractAndVerifyToken ends.
LookupReturns(r) ==
  /\ pc[r] = "lookup"
  /\ \E rejected \in BOOLEAN :
       LET verified == verifyFirebaseToken(rejected, accountsLookup(accounts, LookupToken(r)))
       IN IF verified.ok
          THEN /\ context' = [context EXCEPT ![r].firebaseUser = verified.user]
               /\ Goto(r, "handler") /\ UNCHANGED thrown
          ELSE Throw(r, verified.error) /\ UNCHANGED context
  /\ UNCHANGED <<env, accounts, users, request, local, trace, response>>

\* The fragments a message thrown by a handler outside the repository is
\* made of: the patterns the catch block looks for, and other text.
Fragments == {"Unauthorized", "Missing required", "not found", "Not found", "Forbidden", "failed"}

RECURSIVE MessagesUpTo(_)
MessagesUpTo(n) ==
  IF n = 0 THEN {<< >>}
  ELSE LET shorter == MessagesUpTo(n - 1)
       IN shorter \cup {Append(m, f) : m \in {x \in shorter : Len(x) = n - 1}, f \in Fragments}

CustomMessages == MessagesUpTo(MaxMsgLen)

\* A handler outside the repository: it returns a response, throws an Error
\* or throws a value that is no Error.
CustomHandler(r) ==
  /\ pc[r] = "handler"
  /\ request[r].endpoint = "custom"
  /\ Log(r, <<Event("handler", Undefined)>>)
  /\ \/ Respond(r, createSuccessResponse([success |-> "true"], 200)) /\ UNCHANGED thrown
     \/ \E m \in CustomMessages : Throw(r, Error(m)) /\ UNCHANGED response
     \/ Throw(r, NonError) /\ UNCHANGED response
  /\ UNCHANGED <<env, accounts, users, request, context, local>>

\* accounts:signInWithPassword as the provider answers it: the token bundle
\* for an account's e-mail and password, else a refusal with the provider's
\* message (with no message when neither the e-mail nor the password is known).
signInWithPassword(accts, email, password) ==
  LET known == {uid \in accts : email = <<EmailOf(uid)>>}
  IN IF known # {} /\ password = Password
     THEN LET uid == CHOOSE u \in known : TRUE
          IN [ok |-> TRUE, message |-> Undefined, localId |-> uid,
              idToken |-> <<IdTokenOf(uid)>>]
     ELSE [ok |-> FALSE, localId |-> "#undefined", idToken |-> Undefined,
           message |-> IF known # {} THEN <<"INVALID_PASSWORD">>
                       ELSE IF password = Password THEN <<"EMAIL_NOT_FOUND">>
                       ELSE Undefined]

\* authenticateWithFirebase from the fetch on.
authenticateWithFirebase(rejected, answer) ==
  IF rejected THEN [ok |-> FALSE, error |-> NetworkError]
  ELSE IF ~answer.ok
  THEN [ok |-> FALSE,
        error |-> Error(IF Truthy(answer.message) THEN answer.message
                        ELSE <<"Invalid login credentials">>)]
  ELSE [ok |-> TRUE, error |-> NoThrow]

\* .from('users').select('*').eq(column, value).single(): the one row, or an
\* error when the store fails or the rows matching are not exactly one.  A
\* column holds one fragment; the value asked for is a string.
\* A select that forgets its eq filter.
selectSingle_Unfiltered(rows, failed, column, value) ==
  LET matching == rows
  IN IF failed THEN [data |-> NoRow, error |-> <<"fetch failed">>]
     ELSE IF matching = {}
     THEN [data |-> NoRow, error |-> <<"JSON object requested, multiple (or no) rows returned">>]
     ELSE [data |-> CHOOSE row \in matching : TRUE, error |-> Undefined]

selectSingle(rows, failed, column, value) ==
  LET matching == {row \in rows : <<row[column]>> = value}
  IN IF failed THEN [data |-> NoRow, error |-> <<"fetch failed">>]
     ELSE IF Cardinality(matching) # 1
     THEN [data |-> NoRow, error |-> <<"JSON object requested, multiple (or no) rows returned">>]
     ELSE [data |-> CHOOSE row \in matching : TRUE, error |-> Undefined]

\* The login handler up to the fetch of authenticateWithFirebase: the body
\* is parsed and destructured, the required fields and the key are checked.
LoginHandler(r) ==
  /\ pc[r] = "handler"
  /\ request[r].endpoint = "login"
  /\ LET requestBody == request[r].body
     IN IF requestBody.json = "invalid"
        THEN Throw(r, Error(<<"Unexpected end of JSON input">>))
             /\ Log(r, <<Event("handler", Undefined)>>)
        ELSE IF requestBody.json = "null"
        THEN Throw(r, Error(<<"Cannot destructure property 'email' of 'requestBody' as it is null.">>))
             /\ Log(r, <<Event("handler", Undefined)>>)
        ELSE LET checked == validateRequiredFields(requestBody, <<"email", "password">>)
             IN IF ~checked.ok
                THEN Throw(r, checked.error) /\ Log(r, <<Event("handler", Undefined)>>)
                ELSE IF ~Truthy(env["FIREBASE_WEB_API_KEY"])
                THEN Throw(r, Error(KeyNotConfiguredMessage))
                     /\ Log(r, <<Event("handler", Undefined)>>)
                ELSE /\ Log(r, <<Event("handler", Undefined),
                                 Event("accounts:signInWithPassword", requestBody.email)>>)
                     /\ Goto(r, "signIn") /\ UNCHANGED thrown
  /\ UNCHANGED <<env, accounts, users, request, context, local, response>>

\* The login handler: the sign-in call returns; on success the users row of
\* the account is asked for.
SignInReturns(r) ==
  /\ pc[r] = "signIn"
  /\ \E rejected \in BOOLEAN :
       LET answer == signInWithPassword(accounts, request[r].body.email, request[r].body.password)
           signedIn == authenticateWithFirebase(rejected, answer)
       IN IF ~signedIn.ok
          THEN Throw(r, signedIn.error) /\ UNCHANGED <<local, trace>>
          ELSE /\ local' = [local EXCEPT ![r].firebaseUser = FirebaseUser(answer.localId),
                                         ![r].idToken = answer.idToken]
               /\ Log(r, <<Event("users.select", <<answer.localId>>)>>)
               /\ Goto(r, "loginSelect") /\ UNCHANGED thrown
  /\ UNCHANGED <<env, accounts, users, request, context, response>>

\* The login handler: the select returns.
LoginSelectReturns(r) ==
  /\ pc[r] = "loginSelect"
  /\ \E failed \in BOOLEAN :
       LET result == selectSingle(users, failed, "firebase_uid", <<local[r].firebaseUser.localId>>)
       IN /\ local' = [local EXCEPT ![r].dbUser = result.data, ![r].dbError = result.error]
          /\ IF Truthy(result.error) \/ result.data = NoRow
             THEN Throw(r, Error(<<"User ", "not found", " in database">>))
                  /\ UNCHANGED response
             ELSE Respond(r, createSuccessResponse(
                    [ success |-> "true", user |-> sanitizeUserData(result.data),
                      firebase_token |-> local[r].idToken, refresh_token |-> <<"refresh">>,
                      expires_in |-> <<"3600">> ], 200)) /\ UNCHANGED thrown
  /\ UNCHANGED <<env, accounts, users, request, context, trace>>

\* The get-user handler up to its select: the id parameter is required.
GetUserHandler(r) ==
  /\ pc[r] = "handler"
  /\ request[r].endpoint = "get-user"
  /\ LET userId == getRequiredQueryParam(request[r].url, "id")
     IN IF ~userId.ok
        THEN Throw(r, userId.error) /\ Log(r, <<Event("handler", Undefined)>>)
        ELSE /\ Log(r, <<Event("handler", Undefined), Event("users.select", userId.value)>>)
             /\ Goto(r, "getUserSelect") /\ UNCHANGED thrown
  /\ UNCHANGED <<env, accounts, users, request, context, local, response>>

\* A get-user whose read takes the row out of the table.
GetUserSelectReturns_Consuming(r) ==
  /\ pc[r] = "getUserSelect"
  /\ \E failed \in BOOLEAN :
       LET result == selectSingle(users, failed, "id", request[r].url.id)
           dbUser == result.data
       IN /\ local' = [local EXCEPT ![r].dbUser = result.data, ![r].dbError = result.error]
          /\ users' = users \ {dbUser}
          /\ IF Truthy(result.error) \/ dbUser = NoRow
             THEN Throw(r, Error(<<"User ", "not found">>)) /\ UNCHANGED response
             ELSE IF dbUser.firebase_uid # context[r].firebaseUser.localId
             THEN Throw(r, Error(<<"Forbidden", ": You can only access your own user data">>))
                  /\ UNCHANGED response
             ELSE Respond(r, createSuccessResponse(
                    [ success |-> "true", user |-> sanitizeUserData(dbUser),
                      authenticated_as |-> [ email |-> context[r].firebaseUser.email,
                                             firebase_uid |-> context[r].firebaseUser.localId ] ],
                    200)) /\ UNCHANGED thrown
  /\ UNCHANGED <<env, accounts, request, context, trace>>

\* The get-user handler: the select returns; the row must be the caller's.
GetUserSelectReturns(r) ==
  /\ pc[r] = "getUserSelect"
  /\ \E failed \in BOOLEAN :
       LET result == selectSingle(users, failed, "id", request[r].url.id)
           dbUser == result.data
       IN /\ local' = [local EXCEPT ![r].dbUser = result.data, ![r].dbError = result.error]
          /\ IF Truthy(result.error) \/ dbUser = NoRow
             THEN Throw(r, Error(<<"User ", "not found">>)) /\ UNCHANGED response
             ELSE IF dbUser.firebase_uid # context[r].firebaseUser.localId
             THEN Throw(r, Error(<<"Forbidden", ": You can only access your own user data">>))
                  /\ UNCHANGED response
             ELSE Respond(r, createSuccessResponse(
                    [ success |-> "true", user |-> sanitizeUserData(dbUser),
                      authenticated_as |-> [ email |-> context[r].firebaseUser.email,
                                             firebase_uid |-> context[r].firebaseUser.localId ] ],
                    200)) /\ UNCHANGED thrown
  /\ UNCHANGED <<env, accounts, users, request, context, trace>>

\* ------------------------------------------- the inlined register endpoint

\* The headers of the register endpoint's own responses.
registerCorsHeaders == {"Access-Control-Allow-Origin", "Access-Control-Allow-Headers"}

registerResponse(status, body) ==
  [status |-> status, headers |-> registerCorsHeaders \cup {"Content-Type"}, body |-> body]

\* password.length, in characters.
MinPasswordLength == 6
StringLength(s) ==
  IF s = Password THEN 6 ELSE IF s = <<"short">> THEN 5 ELSE Len(s)

\* accounts:signUp as the provider answers it: a new account for an e-mail
\* that has none, else a refusal.
signUp(accts, email) ==
  LET free == {uid \in Uids \ accts : email = <<EmailOf(uid)>>}
  IN IF free # {}
     THEN LET uid == CHOOSE u \in free : TRUE
          IN [ok |-> TRUE, message |-> Undefined, localId |-> uid,
              idToken |-> <<IdTokenOf(uid)>>]
     ELSE [ok |-> FALSE, message |-> <<"EMAIL_EXISTS">>, localId |-> "#undefined",
           idToken |-> Undefined]

\* createClient(url ?? '', key ?? '') of supabase-js, which refuses an empty
\* URL or key.
createClient(supabaseUrl, supabaseKey) ==
  IF ~Truthy(supabaseUrl) THEN Throws(Error(<<"supabaseUrl is required.">>))
  ELSE IF ~Truthy(supabaseKey) THEN Throws(Error(<<"supabaseKey is required.">>))
  ELSE Returns(<<"supabaseClient">>)

\* The register endpoint up to its sign-up fetch: preflight, the body, the
\* required fields, the password's length and the provider key.
Register(r) ==
  /\ pc[r] = "register"
  /\ LET body == request[r].body
     IN IF request[r].method = "OPTIONS"
        THEN Respond(r, [status |-> 200, headers |-> registerCorsHeaders, body |-> [text |-> "ok"]])
             /\ UNCHANGED <<thrown, trace>>
        ELSE IF body.json = "invalid"
        THEN ThrowTo(r, Error(<<"Unexpected end of JSON input">>), "registerCatch")
             /\ UNCHANGED <<response, trace>>
        ELSE IF ~Truthy(body.name) \/ ~Truthy(body.email) \/ ~Truthy(body.password)
        THEN Respond(r, registerResponse(400,
               [error |-> <<"Missing required", " fields: name, email, and password are required">>]))
             /\ UNCHANGED <<thrown, trace>>
        ELSE IF StringLength(body.password) < MinPasswordLength
        THEN Respond(r, registerResponse(400,
               [error |-> <<"Password must be at least 6 characters long">>]))
             /\ UNCHANGED <<thrown, trace>>
        ELSE IF ~Truthy(env["FIREBASE_WEB_API_KEY"])
        THEN ThrowTo(r, Error(KeyNotConfiguredMessage), "registerCatch")
             /\ UNCHANGED <<response, trace>>
        ELSE /\ Log(r, <<Event("accounts:signUp", body.email)>>)
             /\ Goto(r, "signUp") /\ UNCHANGED <<thrown, response>>
  /\ UNCHANGED <<env, accounts, users, request, context, local>>

\* The register endpoint: the sign-up call returns; on success the client
\* is built and the insert issued.
SignUpReturns(r) ==
  /\ pc[r] = "signUp"
  /\ \E rejected \in BOOLEAN :
       LET answer == signUp(accounts, request[r].body.email)
           client == createClient(env["SUPABASE_URL"], env["SUPABASE_SERVICE_ROLE_KEY"])
       IN IF rejected
          THEN ThrowTo(r, NetworkError, "registerCatch") /\ UNCHANGED <<accounts, local, trace>>
          ELSE IF ~answer.ok
          THEN ThrowTo(r, Error(IF Truthy(answer.message) THEN answer.message
                                ELSE <<"Failed to create Firebase user">>), "registerCatch")
               /\ UNCHANGED <<accounts, local, trace>>
          ELSE /\ accounts' = accounts \cup {answer.localId}
               /\ local' = [local EXCEPT ![r].firebaseUser = FirebaseUser(answer.localId),
                                         ![r].idToken = answer.idToken]
               /\ IF ~client.ok
                  THEN ThrowTo(r, client.error, "registerCatch") /\ UNCHANGED trace
                  ELSE /\ Log(r, <<Event("users.insert", <<answer.localId>>)>>)
                       /\ Goto(r, "insert") /\ UNCHANGED thrown
  /\ UNCHANGED <<env, users, request, context, response>>

\* An insert that stores the row under a fixed account's identifier.
insertedRow_OtherAccount(body, firebaseUser) ==
  UserRow("3", body.name[1], body.email[1], "u1")

\* The row the insert stores for a request's body and the new account.
insertedRow(body, firebaseUser) ==
  UserRow("3", body.name[1], body.email[1], firebaseUser.localId)

\* The register endpoint's 201 response for the inserted row.
createdResponse(dbUser) ==
  registerResponse(201,
    [ success |-> "true",
      user |-> [ id |-> dbUser.id, name |-> dbUser.name, email |-> dbUser.email,
                 firebase_uid |-> dbUser.firebase_uid, created_at |-> dbUser.created_at ] ])

\* The insert's return without the rollback: the error is thrown at once.
InsertReturns_NoRollback(r) ==
  /\ pc[r] = "insert"
  /\ \/ /\ users' = users \cup {insertedRow(request[r].body, local[r].firebaseUser)}
        /\ Respond(r, createdResponse(insertedRow(request[r].body, local[r].firebaseUser)))
        /\ UNCHANGED <<local, trace, thrown>>
     \/ /\ local' = [local EXCEPT ![r].dbError = <<"connection refused">>]
        /\ ThrowTo(r, Error(<<"Database error: ", "connection refused">>), "registerCatch")
        /\ UNCHANGED <<users, response, trace>>
  /\ UNCHANGED <<env, accounts, request, context>>

\* The register endpoint: the insert returns; on an error the delete call
\* (the rollback) is issued with the sign-up's token.
InsertReturns(r) ==
  /\ pc[r] = "insert"
  /\ \/ /\ users' = users \cup {insertedRow(request[r].body, local[r].firebaseUser)}
        /\ Respond(r, createdResponse(insertedRow(request[r].body, local[r].firebaseUser)))
        /\ UNCHANGED <<local, trace>>
     \/ /\ local' = [local EXCEPT ![r].dbError = <<"connection refused">>]
        /\ Log(r, <<Event("accounts:delete", local[r].idToken)>>)
        /\ Goto(r, "delete")
        /\ UNCHANGED <<users, response>>
  /\ UNCHANGED <<env, accounts, request, context, thrown>>

\* The register endpoint: the delete call returns.  Its answer is not
\* looked at; a rejected fetch throws in place of the database error.
DeleteReturns(r) ==
  /\ pc[r] = "delete"
  /\ \/ /\ accounts' = accounts \ {local[r].firebaseUser.localId}
        /\ ThrowTo(r, Error(<<"Database error: ">> \o local[r].dbError), "registerCatch")
     \/ /\ UNCHANGED accounts
        /\ ThrowTo(r, Error(<<"Database error: ">> \o local[r].dbError), "registerCatch")
     \/ /\ UNCHANGED accounts
        /\ ThrowTo(r, NetworkError, "registerCatch")
  /\ UNCHANGED <<env, users, request, context, local, trace, response>>

\* The register endpoint's catch block.
RegisterCatch(r) ==
  /\ pc[r] = "registerCatch"
  /\ Respond(r, registerResponse(500,
       [error |-> IF Truthy(thrown[r].message) THEN thrown[r].message
                  ELSE <<"Internal server error during registration">>]))
  /\ UNCHANGED <<env, accounts, users, request, context, local, thrown, trace>>

\* withMiddleware's catch block.  A caught value without a message makes
\* error.message.includes throw inside the block: the promise rejects.
Catch(r) ==
  /\ pc[r] = "catch"
  /\ IF thrown[r].kind = "Error"
     THEN Respond(r, errorResponseFor(thrown[r].message))
     ELSE Goto(r, "rejected") /\ UNCHANGED response
  /\ UNCHANGED <<env, accounts, users, request, context, local, thrown, trace>>

\* One invocation runs from its request to its response; the steps of the
\* endpoints are the disjuncts.
Next ==
  \E r \in {"r1"} :
    \/ Receive(r)
    \/ CorsPreflight(r)
    \/ ValidateEnv(r)
    \/ CreateContext(r)
    \/ Authenticate(r)
    \/ LookupReturns(r)
    \/ CustomHandler(r)
    \/ LoginHandler(r)
    \/ SignInReturns(r)
    \/ LoginSelectReturns(r)
    \/ GetUserHandler(r)
    \/ GetUserSelectReturns(r)
    \/ Register(r)
    \/ SignUpReturns(r)
    \/ InsertReturns(r)
    \/ DeleteReturns(r)
    \/ RegisterCatch(r)
    \/ Catch(r)

Spec == Init /\ [][Next]_vars

\* The runtime resumes an invocation whenever the call it awaits has returned
\* or failed, and runs synchronous code to its next await: a step that can
\* be taken is taken.
SpecFair == Spec /\ WF_vars(Next)

\* ------------------------------------------------ two get-user calls in turn

\* The deployments the two calls are served by: every setting configured, or
\* the provider's key left out.
InitDeployed ==
  /\ Init
  /\ Truthy(env["SUPABASE_URL"]) /\ Truthy(env["SUPABASE_SERVICE_ROLE_KEY"])
  /\ env["FIREBASE_WEB_API_KEY"] # EmptyString

\* The get-user endpoint's serve callback is called with a request.
ReceiveGetUser(r) == Receive(r) /\ request'[r].endpoint = "get-user"

\* The first request has been answered.
FirstEnded == pc["r1"] \in {"done", "rejected"}

\* Request r may step: r2 is served once r1 is answered.
Turn(r) == r = "r2" => FirstEnded

\* The get-user endpoint serves r1 and then r2.
NextInTurn ==
  \E r \in AllReqs :
    \/ Turn(r) /\ ReceiveGetUser(r)
    \/ Turn(r) /\ CorsPreflight(r)
    \/ Turn(r) /\ ValidateEnv(r)
    \/ Turn(r) /\ CreateContext(r)
    \/ Turn(r) /\ Authenticate(r)
    \/ Turn(r) /\ LookupReturns(r)
    \/ Turn(r) /\ GetUserHandler(r)
    \/ Turn(r) /\ GetUserSelectReturns(r)
    \/ Turn(r) /\ Catch(r)

SpecInTurn == InitDeployed /\ [][NextInTurn]_vars

\* --------------------------------------------------- two invocations at once

\* The requests two invocations running at once are given: get-user with no
\* header, a refused token or the token of either stored row's owner, and
\* login with a known, an unknown-to-the-table and a refused account.
ConcurrentRequests ==
  { req \in RequestsOf("get-user") :
      /\ req.method = "GET"
      /\ req.authorization \in {Null, <<"Bearer ", "tok-u1">>, <<"Bearer ", "tok-u2">>,
                                 <<"Bearer ", "expired">>}
      /\ req.url.id \in {Null, <<"1">>, <<"2">>} }
    \cup
  { req \in RequestsOf("login") :
      /\ req.method = "POST" /\ req.body.json = "object"
      /\ req.body.email \in {Undefined, <<"alice">>, <<"carol">>}
      /\ req.body.password \in {Password, <<"wrong">>} }

ReceiveConcurrent(r) == Receive(r) /\ request'[r] \in ConcurrentRequests

\* Two invocations, each suspended at its awaits, in any interleaving.
NextConcurrent ==
  \E r \in AllReqs :
    \/ ReceiveConcurrent(r)
    \/ CorsPreflight(r)
    \/ ValidateEnv(r)
    \/ CreateContext(r)
    \/ Authenticate(r)
    \/ LookupReturns(r)
    \/ LoginHandler(r)
    \/ SignInReturns(r)
    \/ LoginSelectReturns(r)
    \/ GetUserHandler(r)
    \/ GetUserSelectReturns(r)
    \/ Catch(r)

SpecConcurrent == InitDeployed /\ [][NextConcurrent]_vars

\* -------------------------------------------------------------------- claims

\* The operations a request's trace holds.
Ops(r) == {trace[r][i].op : i \in 1..Len(trace[r])}

\* The request runs on the shared pipeline and has been received.
OnPipeline(r) == request[r].endpoint \in {"login", "get-user", "custom"}

\* The settings whose value is absent or empty.
Absent(k) == env[k] \in {Undefined, EmptyString}

OkResponse == [status |-> 200, headers |-> corsHeaders, body |-> [text |-> "ok"]]

\* C1: a preflight (OPTIONS) request on the pipeline is answered 200 "ok"
\* with the CORS headers whatever the options and the settings are, and
\* nothing else runs for it: no config check, no client construction, no
\* identity-provider call, no handler, nothing thrown.
C1_PreflightFirst ==
  \A r \in AllReqs :
    (OnPipeline(r) /\ request[r].method = "OPTIONS") =>
      /\ trace[r] = << >>
      /\ thrown[r] = NoThrow
      /\ pc[r] \in {"withMiddleware", "done"}
      /\ pc[r] = "done" => response[r] = OkResponse

C1_Witness ==
  \E r \in AllReqs :
    /\ OnPipeline(r) /\ request[r].method = "OPTIONS" /\ pc[r] = "done"
    /\ request[r].options.requireAuth /\ request[r].options.validateEnv
    /\ \A k \in DOMAIN env : Absent(k)
    /\ response[r].status = 200

\* C2: every invocation of withMiddleware ends in a response: it never
\* rejects, whatever is thrown inside it.
C2_NeverRejects ==
  \A r \in AllReqs :
    OnPipeline(r) =>
      /\ pc[r] # "rejected"
      /\ pc[r] = "done" => response[r].status \in {200, 400, 401, 403, 404, 500}

\* The request asks for authentication and has no Authorization header.
NoAuthorization(r) ==
  /\ OnPipeline(r) /\ request[r].method # "OPTIONS"
  /\ request[r].options.requireAuth
  /\ request[r].authorization = Null

Unauthorized401(r) ==
  /\ response[r].status = 401
  /\ \E i \in 1..Len(response[r].body.error) : response[r].body.error[i] = "Unauthorized"

\* C3 as stated: with requireAuth and no Authorization header the answer is
\* 401 "Unauthorized" whatever validateEnv and the settings are.
C3_Original ==
  \A r \in AllReqs : (NoAuthorization(r) /\ pc[r] = "done") => Unauthorized401(r)

\* The settings let the pipeline reach the authentication step.
ReachesAuthentication(r) ==
  /\ ~Absent("SUPABASE_URL") /\ ~Absent("SUPABASE_SERVICE_ROLE_KEY")
  /\ request[r].options.validateEnv => ~Absent("FIREBASE_WEB_API_KEY")

\* C3 amended: with requireAuth and no Authorization header the answer is
\* 401 "Unauthorized" when the data-store URL and credential are set and,
\* under validateEnv, the provider key too; with a setting missing there the
\* answer is the configuration failure, status 500.  No provider call is
\* issued and the handler does not run in either case.
C3_MissingHeader ==
  \A r \in AllReqs :
    NoAuthorization(r) =>
      /\ pc[r] # "rejected"
      /\ Ops(r) \subseteq {"validateEnv", "createSupabaseClient"}
      /\ pc[r] = "done" =>
           IF ReachesAuthentication(r) THEN Unauthorized401(r)
           ELSE response[r].status = 500

C3_Witness ==
  \E r \in AllReqs :
    /\ NoAuthorization(r) /\ pc[r] = "done" /\ Unauthorized401(r)
    /\ ~request[r].options.validateEnv /\ Absent("FIREBASE_WEB_API_KEY")

\* The request's Bearer token reached the provider, which refused it or
\* answered with no account; what was thrown is not a failure of the network.
TokenRejected(r) ==
  /\ OnPipeline(r) /\ request[r].options.requireAuth
  /\ \A k \in DOMAIN env : ~Absent(k)
  /\ "accounts:lookup" \in Ops(r)
  /\ LET answer == accountsLookup(accounts, Trim(ReplaceFirst(request[r].authorization, "Bearer ")))
     IN ~answer.ok \/ Len(answer.users) = 0
  /\ thrown[r].message # <<"Firebase token verification failed: ">> \o NetworkError.message

\* C4: a Bearer token the provider rejects is answered 401 and the handler
\* is not invoked.
C4_RejectedTokenIs401 ==
  \A r \in AllReqs :
    TokenRejected(r) =>
      /\ "handler" \notin Ops(r)
      /\ pc[r] = "done" => response[r].status = 401

\* The status the first matching pattern gives a message, in the order
\* Unauthorized, Missing required, not found / Not found, Forbidden.
FirstMatchStatus(message) ==
  LET rules == << <<{"Unauthorized"}, 401>>, <<{"Missing required"}, 400>>,
                  <<{"not found", "Not found"}, 404>>, <<{"Forbidden"}, 403>> >>
      hits == {i \in 1..Len(rules) : \E j \in 1..Len(message) : message[j] \in rules[i][1]}
  IN IF hits = {} THEN 500
     ELSE rules[CHOOSE i \in hits : \A k \in hits : i <= k][2]

\* A failure with a message was caught at the pipeline boundary and answered.
CaughtAndAnswered(r) == OnPipeline(r) /\ pc[r] = "done" /\ thrown[r].kind = "Error"

\* C5 as stated: the body is {error: message} and the status is the first
\* match's, for every message.
C5_Original ==
  \A r \in AllReqs :
    CaughtAndAnswered(r) =>
      /\ response[r].body = [error |-> thrown[r].message]
      /\ response[r].status = FirstMatchStatus(thrown[r].message)

\* C5 amended: the status is the first match's for every message; the body
\* is {error: message}, except that the empty message is reported as
\* "Internal server error" (with status 500).
C5_FirstMatch ==
  \A r \in AllReqs :
    CaughtAndAnswered(r) =>
      /\ response[r].status = FirstMatchStatus(thrown[r].message)
      /\ response[r].headers = corsHeaders
      /\ response[r].body =
           [error |-> IF thrown[r].message = EmptyString
                      THEN <<"Internal server error">> ELSE thrown[r].message]

\* A message matching two patterns, the later one first in the text.
C5_Witness ==
  \E r \in AllReqs :
    /\ CaughtAndAnswered(r)
    /\ thrown[r].message = <<"Forbidden", "not found">>
    /\ response[r].status = 404

\* Config validation is asked for and a required setting is absent.
ValidationFails(r) ==
  /\ OnPipeline(r) /\ request[r].method # "OPTIONS"
  /\ request[r].options.validateEnv
  /\ \E k \in DOMAIN env : Absent(k)

\* The absent settings in declaration order, separated by ", ".
AbsentSettings ==
  LET names == (IF Absent("SUPABASE_URL") THEN <<"SUPABASE_URL">> ELSE << >>)
               \o (IF Absent("SUPABASE_SERVICE_ROLE_KEY")
                   THEN <<"SUPABASE_SERVICE_ROLE_KEY">> ELSE << >>)
               \o (IF Absent("FIREBASE_WEB_API_KEY") THEN <<"FIREBASE_WEB_API_KEY">> ELSE << >>)
  IN [i \in 1..(2 * Len(names) - 1) |-> IF i % 2 = 1 THEN names[(i + 1) \div 2] ELSE ", "]

\* C6: under validateEnv, with some required setting absent, the failure's
\* message is "Missing environment variables: " and then every absent key,
\* in declaration order; the response carries it, and neither client
\* construction, authentication nor the handler runs.
C6_EveryMissingKey ==
  \A r \in AllReqs :
    ValidationFails(r) =>
      /\ pc[r] \in {"withMiddleware", "validateEnv", "catch", "done"}
      /\ Ops(r) \subseteq {"validateEnv"}
      /\ pc[r] \in {"catch", "done"} =>
           thrown[r] = Error(<<"Missing environment variables: ">> \o AbsentSettings)
      /\ pc[r] = "done" =>
           response[r].body = [error |-> <<"Missing environment variables: ">> \o AbsentSettings]

C6_Witness ==
  \E r \in AllReqs :
    /\ ValidationFails(r) /\ pc[r] = "done" /\ request[r].options.requireAuth
    /\ Absent("SUPABASE_URL") /\ ~Absent("SUPABASE_SERVICE_ROLE_KEY")
    /\ Absent("FIREBASE_WEB_API_KEY")
    /\ Len(response[r].body.error) = 4

\* A configuration failure outside explicit validation: the client cannot be
\* built, or the token cannot be verified for want of the provider key.
ConfigFailsElsewhere(r) ==
  /\ OnPipeline(r) /\ request[r].method # "OPTIONS"
  /\ ~request[r].options.validateEnv
  /\ \/ Absent("SUPABASE_URL") \/ Absent("SUPABASE_SERVICE_ROLE_KEY")
     \/ /\ Absent("FIREBASE_WEB_API_KEY") /\ request[r].options.requireAuth
        /\ StartsWith(request[r].authorization, "Bearer ")
        /\ Len(request[r].authorization) = 2 /\ request[r].authorization[2] # " "

\* The register endpoint lacks the provider key for its sign-up.
RegisterLacksKey(r) ==
  /\ request[r].endpoint = "register" /\ request[r].method # "OPTIONS"
  /\ thrown[r] = Error(<<"Firebase Web API Key not configured">>)

\* C7 as stated: a failure of explicit config validation is answered 400,
\* a configuration failure raised elsewhere 500.
C7_Original ==
  \A r \in AllReqs :
    pc[r] = "done" =>
      /\ ValidationFails(r) => response[r].status = 400
      /\ ConfigFailsElsewhere(r) => response[r].status = 500

\* C7 amended: a configuration failure is answered with status 500 wherever
\* it is raised: by explicit config validation, by the construction of the
\* data-store client, by token verification without the provider key, or by
\* the register endpoint's sign-up without it.
C7_ConfigFailureIs500 ==
  \A r \in AllReqs :
    (pc[r] = "done" /\ (ValidationFails(r) \/ ConfigFailsElsewhere(r) \/ RegisterLacksKey(r))) =>
      /\ response[r].status = 500
      /\ "error" \in DOMAIN response[r].body
      /\ "handler" \notin Ops(r)

C7_Witness ==
  \E r \in AllReqs :
    /\ ValidationFails(r) /\ pc[r] = "done"
    /\ response[r].status = 500
    /\ response[r].body.error[1] = "Missing environment variables: "

\* The register execution whose sign-up succeeded and whose insert failed.
InsertFailed(r) == request[r].endpoint = "register" /\ local[r].dbError # Undefined

\* The positions of the account-deletion calls in a request's trace.
Deletions(r) == {i \in 1..Len(trace[r]) : trace[r][i].op = "accounts:delete"}

\* The token the provider issued at sign-up for the request's e-mail.
SignUpToken(r) ==
  <<IdTokenOf(CHOOSE uid \in Uids : request[r].body.email = <<EmailOf(uid)>>)>>

\* C8: once the insert has failed after a successful sign-up, the
\* account-deletion call has been issued exactly once, with the sign-up's
\* token; no response exists before it, and the response is 500.
C8_RollbackOnce ==
  \A r \in AllReqs :
    /\ InsertFailed(r) =>
         /\ Cardinality(Deletions(r)) = 1
         /\ \A i \in Deletions(r) : trace[r][i].arg = SignUpToken(r)
         /\ pc[r] \in {"delete", "registerCatch", "done"}
         /\ pc[r] = "done" => response[r].status = 500
         /\ pc[r] # "done" => response[r] = NoResponse
    /\ (request[r].endpoint = "register" /\ ~InsertFailed(r)) => Deletions(r) = {}

C8_Witness ==
  \E r \in AllReqs :
    /\ InsertFailed(r) /\ pc[r] = "done" /\ response[r].status = 500
    /\ Cardinality(Deletions(r)) = 1
    /\ "accounts:signUp" \in Ops(r) /\ "users.insert" \in Ops(r)

\* The insert failed and the compensation did too: the account is still there.
CompensationFailed(r) ==
  /\ InsertFailed(r) /\ pc[r] \in {"registerCatch", "done"}
  /\ local[r].firebaseUser.localId \in accounts

\* C9: when the compensating deletion fails (refused, or the call rejects)
\* it is issued once and the response is still 500 with the original
\* "Database error: ..." message.
C9_CompensationSwallowed ==
  \A r \in AllReqs :
    (CompensationFailed(r) /\ pc[r] = "done") =>
      /\ Cardinality(Deletions(r)) = 1
      /\ response[r].status = 500
      /\ response[r].body = [error |-> <<"Database error: ">> \o local[r].dbError]

\* Login's sign-in call was answered with a refusal by the provider.
SignInRefused(r) ==
  /\ request[r].endpoint = "login"
  /\ "accounts:signInWithPassword" \in Ops(r)
  /\ ~signInWithPassword(accounts, request[r].body.email, request[r].body.password).ok
  /\ thrown[r] # NetworkError

\* C10: when the provider refuses the credentials the login response is 401
\* or 400, carries no token bundle, and no data-store read is issued.
C10_RefusedLogin ==
  \A r \in AllReqs :
    SignInRefused(r) =>
      /\ "users.select" \notin Ops(r)
      /\ pc[r] = "done" =>
           /\ response[r].status \in {400, 401}
           /\ DOMAIN response[r].body \cap {"firebase_token", "refresh_token", "expires_in"} = {}

\* A refused login that was answered: the provider's message, status 500.
C10_Reached ==
  \E r \in AllReqs : SignInRefused(r) /\ pc[r] = "done" /\ response[r].status = 500

\* The account the provider holds for the token request r sent to
\* accounts:lookup.
LookupEvents(r) == {i \in 1..Len(trace[r]) : trace[r][i].op = "accounts:lookup"}
VerifiedAccount(r) ==
  accountsLookup(accounts, trace[r][CHOOSE i \in LookupEvents(r) : TRUE].arg).users[1]

SanitizedFields == {"id", "name", "email", "firebase_uid", "created_at", "updated_at"}

\* The get-user request r has ended and its read returned the stored row
\* its id names.
GetUserRead(r) ==
  /\ request[r].endpoint = "get-user" /\ pc[r] = "done"
  /\ local[r].dbUser \in users /\ <<local[r].dbUser.id>> = request[r].url.id

\* C11: a get-user request authenticated as account A whose id names a
\* stored row the read returns is answered 403 when the row's firebase_uid is
\* not A's identifier, and 200 with a user object of exactly the fields id,
\* name, email, firebase_uid, created_at, updated_at (the row's values) when
\* it is; and no 200 answer of get-user carries a user whose firebase_uid is
\* not the identifier of the account verified from the request's token.
C11_Ownership ==
  \A r \in AllReqs :
    /\ GetUserRead(r) =>
         LET row == local[r].dbUser
             A == VerifiedAccount(r).localId
         IN /\ row.firebase_uid # A => response[r].status = 403
            /\ row.firebase_uid = A =>
                 /\ response[r].status = 200
                 /\ DOMAIN response[r].body.user = SanitizedFields
                 /\ \A f \in SanitizedFields : response[r].body.user[f] = row[f]
    /\ ( /\ request[r].endpoint = "get-user" /\ pc[r] = "done"
         /\ response[r].status = 200 /\ "user" \in DOMAIN response[r].body ) =>
         response[r].body.user.firebase_uid = VerifiedAccount(r).localId

\* Both cases happen: the caller's own row was answered, and (next
\* definition) another account's row was refused.
C11_Witness ==
  \E r \in AllReqs :
    /\ GetUserRead(r) /\ local[r].dbUser.firebase_uid = VerifiedAccount(r).localId
    /\ response[r].status = 200 /\ response[r].body.user.id = local[r].dbUser.id

C11_ForbiddenReached ==
  \E r \in AllReqs :
    /\ GetUserRead(r) /\ local[r].dbUser.firebase_uid # VerifiedAccount(r).localId
    /\ response[r].status = 403

\* What the provider answers to the sign-in of login request r.
SignInAnswer(r) ==
  signInWithPassword(accounts, request[r].body.email, request[r].body.password)

\* The sign-in call of login request r returned an account.
SignedIn(r) ==
  request[r].endpoint = "login" /\ local[r].firebaseUser # NoFirebaseUser

RowsOf(uid) == {row \in users : row.firebase_uid = uid}

TokenFields == {"firebase_token", "refresh_token", "expires_in"}

\* C12: a login answer carries a token bundle only when the password
\* sign-in succeeded and a users row whose firebase_uid is the identifier
\* the provider returned was found, and its user object is that row (the
\* sanitized fields of it); a sign-in that succeeds for an account no row
\* references is answered 404 without any token.
C12_LoginSuccess ==
  \A r \in AllReqs :
    (request[r].endpoint = "login" /\ pc[r] = "done") =>
      /\ (TokenFields \cap DOMAIN response[r].body # {}) =>
           /\ SignedIn(r) /\ SignInAnswer(r).ok
           /\ local[r].firebaseUser.localId = SignInAnswer(r).localId
           /\ response[r].body.firebase_token = SignInAnswer(r).idToken
           /\ \E row \in RowsOf(SignInAnswer(r).localId) :
                /\ DOMAIN response[r].body.user = SanitizedFields
                /\ \A f \in SanitizedFields : response[r].body.user[f] = row[f]
      /\ (SignedIn(r) /\ RowsOf(local[r].firebaseUser.localId) = {}) =>
           /\ response[r].status = 404
           /\ TokenFields \cap DOMAIN response[r].body = {}

\* A login that succeeded, and (next definition) a sign-in for an account
\* without a row.
C12_Witness ==
  \E r \in AllReqs :
    /\ request[r].endpoint = "login" /\ pc[r] = "done" /\ response[r].status = 200
    /\ TokenFields \subseteq DOMAIN response[r].body
    /\ response[r].body.user.firebase_uid = local[r].firebaseUser.localId

C12_NoRowReached ==
  \E r \in AllReqs :
    /\ SignedIn(r) /\ pc[r] = "done" /\ RowsOf(local[r].firebaseUser.localId) = {}
    /\ "users.select" \in Ops(r) /\ response[r].status = 404

\* A call of request r the network or the data store left unanswered.
CallFailed(r) ==
  \/ local[r].dbError = <<"fetch failed">>
  \/ Includes(thrown[r].message, "error sending request")

\* The token of request r is one the provider holds an account for.
ValidToken(r) ==
  /\ StartsWith(request[r].authorization, "Bearer ")
  /\ LET answer == accountsLookup(accounts, Trim(ReplaceFirst(request[r].authorization, "Bearer ")))
     IN answer.ok /\ Len(answer.users) > 0

\* r is a get-user call (no preflight) that has been answered, every call
\* it made having returned.
GetUserCall(r) ==
  /\ request[r].endpoint = "get-user" /\ request[r].method # "OPTIONS"
  /\ pc[r] = "done" /\ ValidToken(r) /\ ~CallFailed(r)

SameCall ==
  /\ GetUserCall("r1") /\ GetUserCall("r2")
  /\ request["r1"].authorization = request["r2"].authorization
  /\ request["r1"].url = request["r2"].url

\* C13: two get-user calls in turn with the same valid token and the same
\* id, whose calls to the provider and the store are answered and with
\* nothing changing either store between them, get the same status and the
\* same payload; and no step of a get-user call changes the provider's
\* accounts or the users table.
C13_Idempotent ==
  /\ [](SameCall => response["r1"] = response["r2"])
  /\ [][accounts' = accounts /\ users' = users]_vars

\* Two calls for the caller's own row, both answered 200 with the row.
C13_Witness ==
  /\ SameCall /\ response["r2"].status = 200
  /\ response["r1"].body.user = response["r2"].body.user
  /\ "users.select" \in Ops("r1") /\ "users.select" \in Ops("r2")

\* The handler of request r was invoked.
HandlerInvoked(r) == "handler" \in Ops(r)

\* A body or query field that is left out, or empty.
Lacks(v) == v \in {Undefined, Null, EmptyString}

\* The login request r carries a JSON object that lacks a required field.
LoginLacksFields(r) ==
  /\ request[r].endpoint = "login" /\ request[r].body.json = "object"
  /\ Lacks(request[r].body.email) \/ Lacks(request[r].body.password)

\* "Missing required fields: " and the absent fields of login request r.
MissingFieldsMessage(r) ==
  <<"Missing required", " fields: ">> \o
    ( IF Lacks(request[r].body.email) /\ Lacks(request[r].body.password)
      THEN <<"email", ", ", "password">>
      ELSE IF Lacks(request[r].body.email) THEN <<"email">> ELSE <<"password">> )

ExternalCalls ==
  { "accounts:lookup", "accounts:signInWithPassword", "accounts:signUp", "accounts:delete",
    "users.select", "users.insert" }

\* C14: a handler on the pipeline that is invoked with a request lacking
\* required body fields (login) or the required query parameter (get-user)
\* is answered 400 with "Missing required fields: " and every absent field,
\* or "Missing required query parameter: id"; the login handler has then
\* issued no call to the identity provider or the data store.
C14_Validation ==
  \A r \in AllReqs :
    /\ (LoginLacksFields(r) /\ HandlerInvoked(r)) =>
         /\ Ops(r) \cap ExternalCalls = {}
         /\ pc[r] \in {"catch", "done"}
         /\ pc[r] = "done" =>
              response[r] = createErrorResponse(MissingFieldsMessage(r), 400)
    /\ ( /\ request[r].endpoint = "get-user" /\ Lacks(request[r].url.id)
         /\ HandlerInvoked(r) /\ pc[r] = "done" ) =>
         response[r] = createErrorResponse(
                         <<"Missing required", " query parameter: ", "id">>, 400)

\* A login without either field answered 400, and (next definition) a
\* get-user without id.
C14_Witness ==
  \E r \in AllReqs :
    /\ LoginLacksFields(r) /\ HandlerInvoked(r) /\ pc[r] = "done"
    /\ Lacks(request[r].body.email) /\ Lacks(request[r].body.password)
    /\ response[r].status = 400

C14_QueryParamReached ==
  \E r \in AllReqs :
    /\ request[r].endpoint = "get-user" /\ Lacks(request[r].url.id)
    /\ HandlerInvoked(r) /\ pc[r] = "done" /\ response[r].status = 400

\* The places of an operation in the log of request r.
Places(r, op) == {i \in 1..Len(trace[r]) : trace[r][i].op = op}

\* Every operation of the first list that request r logged comes before
\* every one of the second.
Before(r, op1, op2) == \A i \in Places(r, op1) : \A j \in Places(r, op2) : i < j

\* The token of the Authorization header of request r.
TokenOf(r) == Trim(ReplaceFirst(request[r].authorization, "Bearer "))

\* The steps of the pipeline in the order of withMiddleware, as logged.
PipelineOrder(r) ==
  /\ \A op \in {"validateEnv", "createSupabaseClient", "accounts:lookup", "handler"} :
       Cardinality(Places(r, op)) <= 1
  /\ Before(r, "validateEnv", "createSupabaseClient")
  /\ Before(r, "createSupabaseClient", "accounts:lookup")
  /\ Before(r, "accounts:lookup", "handler")
  /\ \A op \in Ops(r) \ {"validateEnv", "createSupabaseClient", "accounts:lookup"} :
       \A i \in Places(r, op) : \E j \in Places(r, "handler") : j <= i
  /\ ("validateEnv" \in Ops(r)) => request[r].options.validateEnv
  /\ ("accounts:lookup" \in Ops(r)) =>
       (request[r].options.requireAuth /\ "createSupabaseClient" \in Ops(r))
  /\ ("createSupabaseClient" \in Ops(r) /\ request[r].options.validateEnv) =>
       ("validateEnv" \in Ops(r) /\ missingEnvVars(env) = << >>)

\* What has held whenever the handler of request r was invoked.
HandlerPreconditions(r) ==
  /\ request[r].method # "OPTIONS"
  /\ request[r].options.validateEnv =>
       ("validateEnv" \in Ops(r) /\ \A k \in {"SUPABASE_URL", "SUPABASE_SERVICE_ROLE_KEY",
                                               "FIREBASE_WEB_API_KEY"} : ~Absent(k))
  /\ "createSupabaseClient" \in Ops(r)
  /\ ~Absent("SUPABASE_URL") /\ ~Absent("SUPABASE_SERVICE_ROLE_KEY")
  /\ IF request[r].options.requireAuth
     THEN /\ trace[r][CHOOSE i \in Places(r, "accounts:lookup") : TRUE].arg = TokenOf(r)
          /\ ValidToken(r)
          /\ context[r].firebaseUser = accountsLookup(accounts, TokenOf(r)).users[1]
     ELSE /\ "accounts:lookup" \notin Ops(r)
          /\ context[r].firebaseUser = NoFirebaseUser

\* C15: the steps of one withMiddleware invocation run in the order CORS
\* check, configuration validation (under validateEnv), context construction,
\* authentication (under requireAuth), handler, and a step that fails keeps
\* every later step from running: the handler is invoked at most once and
\* only for a request that is no preflight, whose configuration validation
\* passed and whose token was verified, the context then holding the account
\* the provider returned for that token; without requireAuth the pipeline
\* issues no provider call and the context holds no account.
C15_Sequencing ==
  /\ [](\A r \in AllReqs :
          OnPipeline(r) =>
            /\ PipelineOrder(r)
            /\ request[r].method = "OPTIONS" => trace[r] = << >>
            /\ HandlerInvoked(r) => HandlerPreconditions(r)
            /\ ~request[r].options.requireAuth =>
                 ("accounts:lookup" \notin Ops(r) /\ context[r].firebaseUser = NoFirebaseUser))
  /\ [][\A r \in AllReqs :
          (OnPipeline(r) /\ thrown[r] # NoThrow) =>
            (trace'[r] = trace[r] /\ context'[r] = context[r] /\ thrown'[r] = thrown[r])]_vars

\* A handler invoked with the verified account, and (next definitions) a
\* failed step after which nothing ran.
C15_Witness ==
  \E r \in AllReqs :
    /\ OnPipeline(r) /\ request[r].options.requireAuth /\ request[r].options.validateEnv
    /\ HandlerInvoked(r) /\ pc[r] = "done"
    /\ {"validateEnv", "createSupabaseClient", "accounts:lookup", "handler"} \subseteq Ops(r)
    /\ context[r].firebaseUser.localId \in accounts

C15_ValidationStopped ==
  \E r \in AllReqs :
    /\ OnPipeline(r) /\ pc[r] = "done" /\ Ops(r) = {"validateEnv"}
    /\ response[r].status = 500

C15_VerificationStopped ==
  \E r \in AllReqs :
    /\ OnPipeline(r) /\ pc[r] = "done" /\ ~HandlerInvoked(r)
    /\ "accounts:lookup" \in Ops(r) /\ thrown[r] # NoThrow

\* The number of times request r issued the external call op.
Issued(r, op) == Cardinality(Places(r, op))

\* C16: every external call returning or failing in the end, each
\* invocation of withMiddleware reaches its response, its response once
\* there is never replaced, and no external call is issued twice.
C16_OneResponse ==
  /\ \A r \in AllReqs : (pc[r] = "withMiddleware") ~> (pc[r] = "done")
  /\ [][\A r \in AllReqs : pc[r] = "done" => (pc'[r] = "done" /\ response'[r] = response[r])]_vars
  /\ [](\A r \in AllReqs : OnPipeline(r) => \A op \in ExternalCalls : Issued(r, op) <= 1)

\* An invocation that ended without a response: its handler threw a value
\* that is no Error.
C16_Reached ==
  \E r \in AllReqs :
    /\ OnPipeline(r) /\ pc[r] = "rejected" /\ response[r] = NoResponse
    /\ HandlerInvoked(r)

\* What belongs to request r alone.
Own(r) == <<request[r], context[r], local[r], thrown[r], trace[r], response[r]>>

\* Both invocations were given the same request and have answered it, every
\* call either made having returned.
SameRequest ==
  /\ request["r1"] = request["r2"] /\ OnPipeline("r1")
  /\ pc["r1"] = "done" /\ pc["r2"] = "done"
  /\ ~CallFailed("r1") /\ ~CallFailed("r2")

\* C17: in every interleaving of two invocations of withMiddleware, the
\* account in a request's context when its handler runs is the one the
\* provider holds for that request's own token, a get-user answer carries
\* only a row of that account, a step of one invocation leaves everything of
\* the other as it was, and two invocations given the same request (their
\* calls answered, the stores being the same) give the same response.
C17_Isolation ==
  /\ [](\A r \in AllReqs :
          OnPipeline(r) =>
            /\ HandlerInvoked(r) => HandlerPreconditions(r)
            /\ ( /\ request[r].endpoint = "get-user" /\ pc[r] = "done"
                 /\ response[r].status = 200 ) =>
                 /\ ValidToken(r)
                 /\ response[r].body.user.firebase_uid =
                      accountsLookup(accounts, TokenOf(r)).users[1].localId
                 /\ response[r].body.authenticated_as.firebase_uid =
                      accountsLookup(accounts, TokenOf(r)).users[1].localId)
  /\ [](SameRequest => response["r1"] = response["r2"])
  /\ [][\A r \in AllReqs : pc'[r] = pc[r] => Own(r)' = Own(r)]_vars

\* Two get-user invocations with different tokens, both suspended at their
\* select, each holding the account of its own token; and (next definition)
\* both answered, each with its own row.
C17_Witness ==
  /\ pc["r1"] = "getUserSelect" /\ pc["r2"] = "getUserSelect"
  /\ request["r1"].authorization = <<"Bearer ", "tok-u1">>
  /\ request["r2"].authorization = <<"Bearer ", "tok-u2">>
  /\ context["r1"].firebaseUser.localId = "u1"
  /\ context["r2"].firebaseUser.localId = "u2"

C17_BothAnswered ==
  /\ request["r1"].endpoint = "get-user" /\ request["r2"].endpoint = "get-user"
  /\ request["r1"].authorization # request["r2"].authorization
  /\ pc["r1"] = "done" /\ pc["r2"] = "done"
  /\ response["r1"].status = 200 /\ response["r2"].status = 200
  /\ response["r1"].body.user.firebase_uid = "u1"
  /\ response["r2"].body.user.firebase_uid = "u2"

\* The accounts and rows there are before any registration.
InitialAccounts == {"u1", "u2", "u3"}
InitialRows == {row \in users : row.id \in {"1", "2"}}

\* The register request r fails the endpoint's input validation.
RegisterInvalid(r) ==
  /\ request[r].endpoint = "register" /\ request[r].method # "OPTIONS"
  /\ \/ request[r].body.json # "object"
     \/ Lacks(request[r].body.name) \/ Lacks(request[r].body.email)
     \/ Lacks(request[r].body.password)
     \/ request[r].body.password = <<"short">>

\* The sign-up call of register request r was refused or did not return.
SignUpFailed(r) ==
  /\ request[r].endpoint = "register" /\ "accounts:signUp" \in Ops(r)
  /\ pc[r] \in {"registerCatch", "done"} /\ local[r].firebaseUser = NoFirebaseUser

\* The account the provider creates for the e-mail of register request r.
CreatedAccount(r) == CHOOSE uid \in Uids : request[r].body.email = <<EmailOf(uid)>>

\* The insert of register request r stored its row.
InsertSucceeded(r) ==
  /\ request[r].endpoint = "register" /\ "users.insert" \in Ops(r)
  /\ pc[r] = "done" /\ ~InsertFailed(r)

\* C18: a registration issues its insert only after its sign-up call
\* succeeded, with the new account's identifier as firebase_uid; when the
\* input validation or the sign-up fails neither the insert nor the
\* account-deletion call is issued; when the insert succeeds no deletion
\* call is issued and the answer is 201; so a users row a registration
\* created references an account the provider created in that request.
C18_RegistrationOrder ==
  \A r \in AllReqs :
    request[r].endpoint = "register" =>
      /\ ("users.insert" \in Ops(r)) =>
           /\ Before(r, "accounts:signUp", "users.insert")
           /\ Issued(r, "accounts:signUp") = 1 /\ Issued(r, "users.insert") = 1
           /\ local[r].firebaseUser.localId = CreatedAccount(r)
           /\ CreatedAccount(r) \notin InitialAccounts
           /\ trace[r][CHOOSE i \in Places(r, "users.insert") : TRUE].arg = <<CreatedAccount(r)>>
      /\ (RegisterInvalid(r) \/ SignUpFailed(r)) =>
           (Ops(r) \cap {"users.insert", "accounts:delete"} = {} /\ users = InitialRows)
      /\ RegisterInvalid(r) => Ops(r) = {}
      /\ InsertSucceeded(r) =>
           /\ Deletions(r) = {} /\ response[r].status = 201
           /\ response[r].body.user.firebase_uid = CreatedAccount(r)
      /\ \A row \in users \ InitialRows :
           /\ InsertSucceeded(r)
           /\ row.firebase_uid = CreatedAccount(r)
           /\ row.firebase_uid \in accounts \ InitialAccounts

\* A registration that stored its row, and (next definitions) one whose
\* sign-up was refused and one that failed validation.
C18_Witness ==
  \E r \in AllReqs :
    /\ InsertSucceeded(r) /\ response[r].status = 201
    /\ \E row \in users \ InitialRows : row.firebase_uid = local[r].firebaseUser.localId

C18_SignUpRefused ==
  \E r \in AllReqs : SignUpFailed(r) /\ pc[r] = "done" /\ response[r].status = 500

C18_InvalidReached ==
  \E r \in AllReqs : RegisterInvalid(r) /\ pc[r] = "done" /\ response[r].status = 400

====
